---- MODULE Spec2Model ----
(***************************************************************************)
(* frame-analyzer-ebpf: the Engine (Analyzer, src/frame-analyzer/src/      *)
(* lib.rs) and the foreign-call gateway around it (src/frame-analyzer/src/ *)
(* c_api.rs): the global singleton, the background collection thread, the  *)
(* pending-event queue (FrameBuffer) and the notification descriptor.      *)
(*                                                                         *)
(* Scope of the model:                                                     *)
(*  - mio's Poll is an epoll instance: registering a descriptor that is    *)
(*    already registered fails (EEXIST), and a descriptor that is closed   *)
(*    leaves the registered set by itself;                                 *)
(*  - OS resource exhaustion (Poll::new, eventfd, thread spawn failing)    *)
(*    and panics inside the Engine are not modelled;                       *)
(*  - callers never run two destroy() calls at the same time.              *)
(***************************************************************************)
EXTENDS Integers, Sequences, FiniteSets, TLC

\* ---------------------------------------------------------------- bounds
Pids == {1, 2}
Callers == {"c1", "c2"}
MaxClock == 3
MaxCalls == 3
MaxECalls == 5
MaxQCalls == 2
MaxQClock == 4
LockAttempts == 2
MaxLCalls == 2
CallTimeouts == {10}

NoOne == "none"
NoTs == 0

VARIABLES
    \* Engine (struct Analyzer) and its kernel-side environment
    poll,        \* Option<Poll>: [some, reg] (reg: pids registered in the epoll set)
    map,         \* HashMap<Pid, AnalyzeTarget>: pid -> [last]
    buffer,      \* VecDeque<Pid>: multiplexed, unconsumed ready pids
    ring,        \* per attachment: records pending in the kernel ring buffer
    clock,       \* the kernel's monotonic clock
    attachable,  \* pids whose probe attachment succeeds
    probe,       \* one UprobeHandler::attach_app: the libraries, and its result
    last,        \* the last direct Engine call and its result
    ecalls,      \* number of direct Engine calls made
    \* gateway globals
    RUNNING, PAUSED, GLOBAL_ANALYZER, NOTIFY_FD, NOTIFY_THREAD,
    fb_data,     \* FRAME_BUFFER.data
    fb_running,  \* FRAME_BUFFER.running
    globalLock,  \* holder of the GLOBAL_ANALYZER mutex
    analyzerLock,\* holder of the Analyzer mutex
    efd,         \* the eventfd made by the last init(): [open, count, closes]
    bg,          \* the background thread: [pc, res]
    pc, loc, ret,\* caller threads: position, locals, last return value
    calls,       \* foreign calls that may still be started
    hist         \* observations used by the properties

evars == <<poll, map, buffer, ring, clock, attachable, probe>>
gvars == <<RUNNING, PAUSED, GLOBAL_ANALYZER, NOTIFY_FD, NOTIFY_THREAD, fb_data,
           fb_running, globalLock, analyzerLock, efd, bg, pc, loc, ret, calls, hist>>
vars == <<poll, map, buffer, ring, clock, attachable, probe, last, ecalls,
          RUNNING, PAUSED, GLOBAL_ANALYZER, NOTIFY_FD, NOTIFY_THREAD, fb_data,
          fb_running, globalLock, analyzerLock, efd, bg, pc, loc, ret, calls, hist>>

\* ------------------------------------------------------------ utilities
Range(s) == {s[i] : i \in 1..Len(s)}

\* all sequences of distinct elements of S (what one multiplexer wake can report)
Arrangements(S) ==
    {s \in UNION {[1..n -> S] : n \in 0..Cardinality(S)} :
        \A i, j \in 1..Len(s) : i # j => s[i] # s[j]}

\* ------------------------------- UprobeHandler::attach_app (uprobe.rs)
\* uprobe.rs:54-61
queue_buffer_symbols ==
    << "_ZN7android7Surface11queueBufferEP19ANativeWindowBufferi",
       "_ZN7android7Surface11queueBufferEP19ANativeWindowBufferiPNS_24SurfaceQueueBufferOutputE",
       "_ZN7android7Surface11queueBufferEP19ANativeWindowBufferj",
       "_ZN7android7Surface11queueBufferEP19ANativeWindowBufferjPNS_24SurfaceQueueBufferOutputE",
       "_ZN7android7Surface11queueBufferEP19ANativeWindowBufferl",
       "_ZN7android7Surface11queueBufferEP19ANativeWindowBufferlPNS_24SurfaceQueueBufferOutputE" >>

\* uprobe.rs:64-67
libgui_paths == << "/system/lib64/libgui.so", "/vendor/lib64/libgui.so" >>

\* uprobe.rs:78-84  the inner loop from symbol j on: program.attach(symbol, path)
\* until one is_ok(); attaches: the (path, symbol) pairs whose attach succeeds;
\* tried: the attach calls made so far
RECURSIVE TrySymbols(_, _, _, _)
TrySymbols(attaches, path, j, tried) ==
    IF j > Len(queue_buffer_symbols) THEN [found |-> FALSE, tried |-> tried]
    ELSE LET pair == <<path, queue_buffer_symbols[j]>>
         IN IF pair \in attaches
            THEN [found |-> TRUE, tried |-> Append(tried, pair)]
            ELSE TrySymbols(attaches, path, j + 1, Append(tried, pair))

\* every path is searched, whether the library file exists or not
RECURSIVE TryPathsUnchecked(_, _, _, _)
TryPathsUnchecked(exists, attaches, i, tried) ==
    IF i > Len(libgui_paths) THEN [found |-> FALSE, tried |-> tried, path |-> ""]
    ELSE LET r == TrySymbols(attaches, libgui_paths[i], 1, tried)
         IN IF r.found
            THEN [found |-> TRUE, tried |-> r.tried, path |-> libgui_paths[i]]
            ELSE TryPathsUnchecked(exists, attaches, i + 1, r.tried)

\* uprobe.rs:72-85  the outer loop from path i on; exists: the paths for which
\* Path::exists() holds
RECURSIVE TryPaths(_, _, _, _)
TryPaths(exists, attaches, i, tried) ==
    IF i > Len(libgui_paths) THEN [found |-> FALSE, tried |-> tried, path |-> ""]
    ELSE IF libgui_paths[i] \notin exists
    THEN TryPaths(exists, attaches, i + 1, tried)
    ELSE LET r == TrySymbols(attaches, libgui_paths[i], 1, tried)
         IN IF r.found
            THEN [found |-> TRUE, tried |-> r.tried, path |-> libgui_paths[i]]
            ELSE TryPaths(exists, attaches, i + 1, r.tried)

\* UprobeHandler::attach_app once the program is loaded: Ok(handler) with the
\* library path it attached to, or Err(AppNotFound)
UprobeAttachApp(exists, attaches) ==
    LET r == TryPaths(exists, attaches, 1, <<>>)
    IN [done |-> TRUE, ok |-> r.found,
        err |-> IF r.found THEN "none" ELSE "AppNotFound",
        libgui_path |-> r.path, tried |-> r.tried]

\* attach_app not called
NoResult == [done |-> FALSE, ok |-> FALSE, err |-> "none", libgui_path |-> "",
             tried |-> <<>>]

NoProbe == [exists |-> {}, attaches |-> {}, res |-> NoResult]

\* ------------------------------------------------------- Engine (lib.rs)
NonePoll == [some |-> FALSE, reg |-> {}]

NewTarget == [last |-> NoTs]

\* Analyzer::new
AnalyzerNew == [poll |-> NonePoll, map |-> <<>>, buffer |-> <<>>,
                ring |-> [p \in Pids |-> <<>>]]

Engine == [poll |-> poll, map |-> map, buffer |-> buffer, ring |-> ring]

\* registry().register(SourceFd(ring fd), Token(pid), READABLE) for every entry
\* of the map, stopping at the first error (epoll_ctl ADD of a registered
\* descriptor is an error)
RECURSIVE RegisterAll(_, _)
RegisterAll(reg, todo) ==
    IF todo = {} THEN [ok |-> TRUE, reg |-> reg]
    ELSE LET pid == CHOOSE p \in todo : TRUE
         IN IF pid \in reg THEN [ok |-> FALSE, reg |-> reg]
            ELSE RegisterAll(reg \cup {pid}, todo \ {pid})

\* Analyzer::register_poll: self.poll.take() or Poll::new(), register all,
\* and only on success put the Poll back
RegisterPoll(e) ==
    LET base == IF e.poll.some THEN e.poll.reg ELSE {}
        r == RegisterAll(base, DOMAIN e.map)
    IN IF r.ok THEN [e EXCEPT !.poll = [some |-> TRUE, reg |-> r.reg]] @@ [ok |-> TRUE]
       ELSE [e EXCEPT !.poll = NonePoll] @@ [ok |-> FALSE]

\* Analyzer::contains
Contains(e, pid) == pid \in DOMAIN e.map

\* the probe is attached and the target inserted whether pid is there or not
AttachAppAgain(e, pid, probeOk) ==
    IF ~probeOk THEN e @@ [ok |-> FALSE]
    ELSE RegisterPoll([e EXCEPT
            !.map = [p \in DOMAIN e.map \cup {pid} |->
                        IF p = pid THEN NewTarget ELSE e.map[p]],
            !.ring[pid] = <<>>])

\* Analyzer::attach_app; probeOk: UprobeHandler::attach_app(pid) succeeds
AttachApp(e, pid, probeOk) ==
    IF Contains(e, pid) THEN e @@ [ok |-> TRUE]
    ELSE IF ~probeOk THEN e @@ [ok |-> FALSE]
    ELSE RegisterPoll([e EXCEPT
            !.map = [p \in DOMAIN e.map \cup {pid} |->
                        IF p = pid THEN NewTarget ELSE e.map[p]],
            !.ring[pid] = <<>>])

\* dropping an AnalyzeTarget closes its ring-buffer descriptor: the kernel
\* takes it out of every epoll set
DropTargets(e, gone) ==
    [e EXCEPT !.map = [p \in DOMAIN e.map \ gone |-> e.map[p]],
              !.poll.reg = e.poll.reg \ gone,
              !.ring = [p \in Pids |-> IF p \in gone THEN <<>> ELSE e.ring[p]]]

\* the queued wake entries of pid stay in the queue
DetachAppKeepsQueue(e, pid) ==
    IF ~Contains(e, pid) THEN e @@ [ok |-> TRUE]
    ELSE RegisterPoll(DropTargets(e, {pid}))

\* Analyzer::detach_app
DetachApp(e, pid) ==
    IF ~Contains(e, pid) THEN e @@ [ok |-> TRUE]
    ELSE LET d == DropTargets(e, {pid})
             kept(q) == q # pid
         IN RegisterPoll([d EXCEPT !.buffer = SelectSeq(e.buffer, kept)])

\* Analyzer::detach_apps
DetachApps(e) == [DropTargets(e, DOMAIN e.map) EXCEPT !.buffer = <<>>]

\* the duration is taken from the first timestamp ever stored: the new
\* timestamp is not stored once there is one
UpdateKeepsFirst(e, pid) ==
    IF e.ring[pid] = <<>> THEN e @@ [frametime |-> 0, some |-> FALSE]
    ELSE LET ts == Head(e.ring[pid])
             prev == e.map[pid].last
             d == [e EXCEPT !.ring[pid] = Tail(e.ring[pid]),
                            !.map[pid].last = IF prev = NoTs THEN ts ELSE prev]
         IN IF prev = NoTs THEN d @@ [frametime |-> 0, some |-> FALSE]
            ELSE d @@ [frametime |-> ts - prev, some |-> TRUE]

\* AnalyzeTarget::update on the target of pid: drains one record
Update(e, pid) ==
    IF e.ring[pid] = <<>> THEN e @@ [frametime |-> 0, some |-> FALSE]
    ELSE LET ts == Head(e.ring[pid])
             prev == e.map[pid].last
             d == [e EXCEPT !.ring[pid] = Tail(e.ring[pid]), !.map[pid].last = ts]
         IN IF prev = NoTs THEN d @@ [frametime |-> 0, some |-> FALSE]
            ELSE d @@ [frametime |-> ts - prev, some |-> TRUE]

\* what one wait on the multiplexer may report: registered pids with pending
\* records, in any order (edge-triggered: possibly fewer than all of them)
ReadyReports(e) ==
    IF e.poll.some
    THEN Arrangements({p \in e.poll.reg : e.ring[p] # <<>>})
    ELSE {<<>>}

\* a pid whose update() yields nothing is put back at the end of the queue
RecvTimeoutRequeue(e, events) ==
    LET waited == e.buffer = <<>> /\ e.poll.some
        e1 == IF e.buffer = <<>>
              THEN LET w == IF e.poll.some
                            THEN [e EXCEPT !.buffer = e.buffer \o events] ELSE e
                       r == RegisterPoll(w)
                   IN [poll |-> r.poll, map |-> r.map, buffer |-> r.buffer,
                       ring |-> r.ring]
              ELSE e
        none == [pid |-> 0, frametime |-> 0, some |-> FALSE, waited |-> waited,
                 popped |-> 0]
    IN IF e1.buffer = <<>> THEN e1 @@ none
       ELSE LET pid == Head(e1.buffer)
                e2 == [e1 EXCEPT !.buffer = Tail(e1.buffer)]
            IN IF pid \notin DOMAIN e2.map THEN e2 @@ [none EXCEPT !.popped = pid]
               ELSE LET u == Update(e2, pid)
                    IN [poll |-> u.poll, map |-> u.map,
                        buffer |-> IF u.some THEN u.buffer ELSE Append(u.buffer, pid),
                        ring |-> u.ring, pid |-> pid, frametime |-> u.frametime,
                        some |-> u.some, waited |-> waited, popped |-> pid]

\* Analyzer::recv_timeout; events: what the wait reports, if a wait happens
RecvTimeout(e, events) ==
    LET waited == e.buffer = <<>> /\ e.poll.some
        e1 == IF e.buffer = <<>>
              THEN LET w == IF e.poll.some
                            THEN [e EXCEPT !.buffer = e.buffer \o events] ELSE e
                       r == RegisterPoll(w)
                   IN [poll |-> r.poll, map |-> r.map, buffer |-> r.buffer,
                       ring |-> r.ring]
              ELSE e
        none == [pid |-> 0, frametime |-> 0, some |-> FALSE, waited |-> waited,
                 popped |-> 0]
    IN IF e1.buffer = <<>> THEN e1 @@ none
       ELSE LET pid == Head(e1.buffer)
                e2 == [e1 EXCEPT !.buffer = Tail(e1.buffer)]
            IN IF pid \notin DOMAIN e2.map THEN e2 @@ [none EXCEPT !.popped = pid]
               ELSE LET u == Update(e2, pid)
                    IN [poll |-> u.poll, map |-> u.map, buffer |-> u.buffer,
                        ring |-> u.ring, pid |-> pid, frametime |-> u.frametime,
                        some |-> u.some, waited |-> waited, popped |-> pid]

SetEngineInit ==
    /\ poll = AnalyzerNew.poll
    /\ map = AnalyzerNew.map
    /\ buffer = AnalyzerNew.buffer
    /\ ring = AnalyzerNew.ring

SetEngine(r) ==
    /\ poll' = r.poll
    /\ map' = r.map
    /\ buffer' = r.buffer
    /\ ring' = r.ring

\* --------------------------------------------- the Engine used directly
\* (had: the pid was in the mapping when attach/detach was called; events: what
\* the wait of a receive reported; popped: the pid the receive popped, or 0;
\* dropped: number of queue entries the call discarded; inserted: some attach
\* so far has put a target in the mapping)
NoCall == [op |-> "none", pid |-> 0, ok |-> TRUE, some |-> FALSE, frametime |-> 0,
           waited |-> FALSE, waitReg |-> {}, waitKeys |-> {}, net |-> {},
           had |-> FALSE, events |-> <<>>, popped |-> 0, dropped |-> 0,
           inserted |-> FALSE]

Registered == IF poll.some THEN poll.reg ELSE {}

\* the probed process submits a frame: the probe writes its timestamp
Produce(pid) ==
    /\ pid \in DOMAIN map
    /\ clock < MaxClock
    /\ clock' = clock + 1
    /\ ring' = [ring EXCEPT ![pid] = Append(@, clock + 1)]
    /\ UNCHANGED <<poll, map, buffer, attachable, probe, last, ecalls>>
    /\ UNCHANGED gvars

\* last.net: the pids whose last membership call was an attach with a working probe
ECall(op, pid, r) ==
    /\ ecalls < MaxECalls
    /\ ecalls' = ecalls + 1
    /\ SetEngine(r)
    /\ last' = [NoCall EXCEPT !.op = op, !.pid = pid, !.ok = r.ok,
                  !.had = pid \in DOMAIN map,
                  !.dropped = Len(buffer) - Len(r.buffer),
                  !.inserted = last.inserted \/ DOMAIN r.map \ DOMAIN map # {},
                  !.net = CASE op = "attach" /\ pid \in attachable -> last.net \cup {pid}
                            [] op = "detach" -> last.net \ {pid}
                            [] op = "detach_all" -> {}
                            [] OTHER -> last.net]
    /\ UNCHANGED <<clock, attachable, probe>>
    /\ UNCHANGED gvars

EAttach(pid) == ECall("attach", pid, AttachApp(Engine, pid, pid \in attachable))

EDetach(pid) == ECall("detach", pid, DetachApp(Engine, pid))

EDetachAll == ECall("detach_all", 0, DetachApps(Engine) @@ [ok |-> TRUE])

ERecv ==
    /\ ecalls < MaxECalls
    /\ \E events \in ReadyReports(Engine) :
         LET r == RecvTimeout(Engine, events)
         IN /\ SetEngine(r)
            /\ last' = [NoCall EXCEPT !.op = "recv", !.pid = r.pid, !.some = r.some,
                          !.frametime = r.frametime, !.waited = r.waited,
                          !.events = IF r.waited THEN events ELSE <<>>,
                          !.popped = r.popped,
                          !.inserted = last.inserted,
                          !.waitReg = IF r.waited THEN poll.reg ELSE {},
                          !.waitKeys = IF r.waited THEN DOMAIN map ELSE {},
                          !.net = last.net]
    /\ ecalls' = ecalls + 1
    /\ UNCHANGED <<clock, attachable, probe>>
    /\ UNCHANGED gvars

\* ------------------------------------------------------- initial states
NoFrameTime == [secs |-> 0, nanos |-> 0]

NoLocals == [op |-> "none", pid |-> 0, tries |-> 0, timeout_ms |-> 0, timeout |-> 0,
             pos |-> 0,
             hit |-> FALSE, onPaused |-> FALSE, out |-> NoFrameTime]

\* nothing observed yet (who: the caller that made the last foreign call)
NoHist == [pauseHeld |-> FALSE, resumeHeld |-> FALSE, overlap |-> FALSE, who |-> NoOne,
           obtained |-> 0, returned |-> [p \in Pids |-> 0], detached |-> {}]

GatewayInit ==
    /\ RUNNING = FALSE
    /\ PAUSED = FALSE
    /\ GLOBAL_ANALYZER = "None"
    /\ NOTIFY_FD = "None"
    /\ NOTIFY_THREAD = "None"
    /\ fb_data = <<>>
    /\ fb_running = TRUE
    /\ globalLock = NoOne
    /\ analyzerLock = NoOne
    /\ efd = [open |-> FALSE, count |-> 0, closes |-> 0]
    /\ bg = [pc |-> "none", pid |-> 0, frametime |-> 0, n |-> 0]
    /\ pc = [c \in Callers |-> "idle"]
    /\ loc = [c \in Callers |-> NoLocals]
    /\ ret = [c \in Callers |-> 0]
    /\ calls = MaxCalls
    /\ hist = NoHist

EngineInit ==
    /\ SetEngineInit
    /\ probe = NoProbe
    /\ clock = 0
    /\ last = NoCall
    /\ ecalls = 0

EInit == EngineInit /\ GatewayInit /\ attachable \in SUBSET Pids

ENext ==
    \/ \E pid \in Pids : Produce(pid)
    \/ \E pid \in Pids : EAttach(pid)
    \/ \E pid \in Pids : EDetach(pid)
    \/ EDetachAll
    \/ ERecv

EngineSpec == EInit /\ [][ENext]_vars

\* ------------------------------------------- one probe attachment
\* a device: which candidate libraries exist, and on which (path, symbol)
\* pairs of existing libraries program.attach succeeds
ProbeInit ==
    /\ SetEngineInit
    /\ clock = 0 /\ last = NoCall /\ ecalls = 0
    /\ attachable = {}
    /\ GatewayInit
    /\ \E exists \in SUBSET Range(libgui_paths) :
         \E attaches \in SUBSET (exists \X Range(queue_buffer_symbols)) :
            probe = [exists |-> exists, attaches |-> attaches, res |-> NoResult]

ProbeAttach ==
    /\ ~probe.res.done
    /\ probe' = [probe EXCEPT !.res = UprobeAttachApp(probe.exists, probe.attaches)]
    /\ UNCHANGED <<poll, map, buffer, ring, clock, attachable, last, ecalls>>
    /\ UNCHANGED gvars

ProbeSpec == ProbeInit /\ [][ProbeAttach]_vars


\* ------------------------------------------- gateway (c_api.rs): helpers
Return(c, v) ==
    /\ pc' = [pc EXCEPT ![c] = "idle"]
    /\ ret' = [ret EXCEPT ![c] = v]

Goto(c, l) ==
    /\ pc' = [pc EXCEPT ![c] = l]
    /\ UNCHANGED ret

\* c_api.rs:230-234  the wait bound in ms for a timeout_ms argument
TimeoutOf(t) == IF t <= 0 THEN 0 ELSE IF t > 5000 THEN 100 ELSE t

\* a foreign call is made by an idle caller; every entry point starts with
\* RUNNING.load() (timeout_ms: the argument of get_frametime, 0 elsewhere)
\* (hist: a pause stays in force until resume or destroy is called, a resume
\* until pause or destroy is called; overlap: this attach/detach runs while the
\* opposite call on the same pid is in progress; obtained: number of events the
\* thread got from the Engine, each event carries its number n; returned: per
\* pid, the number of the event get_frametime returned last; detached: the pids
\* whose last successful gateway attach/detach was a detach)
Enter(c, op, pid, timeout_ms) ==
    /\ pc[c] = "idle"
    /\ calls > 0
    /\ calls' = calls - 1
    /\ loc' = [loc EXCEPT ![c] = [NoLocals EXCEPT !.op = op, !.pid = pid,
                                                  !.timeout_ms = timeout_ms,
                                                  !.timeout = TimeoutOf(timeout_ms),
                                                  !.onPaused = hist.pauseHeld]]
    /\ hist' = [hist EXCEPT
                  !.pauseHeld = hist.pauseHeld /\ op \notin {"resume", "destroy"},
                  !.resumeHeld = hist.resumeHeld /\ op \notin {"pause", "destroy"},
                  !.overlap = /\ op \in {"attach", "detach"}
                              /\ \E d \in Callers \ {c} :
                                    /\ pc[d] # "idle"
                                    /\ loc[d].op \in {"attach", "detach"} \ {op}
                                    /\ loc[d].pid = pid,
                  !.who = c]

\* PAUSE_COND.notify_all(): the thread parked in wait_while is made runnable
WakePaused(b) == IF b.pc = "cv_wait" THEN [b EXCEPT !.pc = "chk_paused"] ELSE b

Waiters == {c \in Callers : pc[c] = "pop_wait"}

EngineUnchanged == UNCHANGED <<poll, map, buffer, ring, clock, attachable, probe, last, ecalls>>

\* ------------------------------------------- the background thread
\* c_api.rs:132  while RUNNING.load()
BgLoop ==
    /\ bg.pc = "loop"
    /\ bg' = [bg EXCEPT !.pc = IF RUNNING THEN "chk_paused" ELSE "close"]
    /\ EngineUnchanged
    /\ UNCHANGED <<RUNNING, PAUSED, GLOBAL_ANALYZER, NOTIFY_FD, NOTIFY_THREAD, fb_data,
                   fb_running, globalLock, analyzerLock, efd, pc, loc, ret, calls, hist>>

\* c_api.rs:134-136  wait_while: the closure loads PAUSED ...
BgCheckPaused ==
    /\ bg.pc = "chk_paused"
    /\ bg' = [bg EXCEPT !.pc = IF PAUSED THEN "chk_running" ELSE "chk_stop"]
    /\ EngineUnchanged
    /\ UNCHANGED <<RUNNING, PAUSED, GLOBAL_ANALYZER, NOTIFY_FD, NOTIFY_THREAD, fb_data,
                   fb_running, globalLock, analyzerLock, efd, pc, loc, ret, calls, hist>>

\* ... then RUNNING, and parks on PAUSE_COND when both are set
BgCheckRunning ==
    /\ bg.pc = "chk_running"
    /\ bg' = [bg EXCEPT !.pc = IF RUNNING THEN "cv_wait" ELSE "chk_stop"]
    /\ EngineUnchanged
    /\ UNCHANGED <<RUNNING, PAUSED, GLOBAL_ANALYZER, NOTIFY_FD, NOTIFY_THREAD, fb_data,
                   fb_running, globalLock, analyzerLock, efd, pc, loc, ret, calls, hist>>

\* Condvar::wait may return without a notification
BgSpuriousWake ==
    /\ bg.pc = "cv_wait"
    /\ bg' = [bg EXCEPT !.pc = "chk_paused"]
    /\ EngineUnchanged
    /\ UNCHANGED <<RUNNING, PAUSED, GLOBAL_ANALYZER, NOTIFY_FD, NOTIFY_THREAD, fb_data,
                   fb_running, globalLock, analyzerLock, efd, pc, loc, ret, calls, hist>>

\* c_api.rs:141  if !RUNNING.load() { break }
BgCheckStop ==
    /\ bg.pc = "chk_stop"
    /\ bg' = [bg EXCEPT !.pc = IF RUNNING THEN "try_lock" ELSE "close"]
    /\ EngineUnchanged
    /\ UNCHANGED <<RUNNING, PAUSED, GLOBAL_ANALYZER, NOTIFY_FD, NOTIFY_THREAD, fb_data,
                   fb_running, globalLock, analyzerLock, efd, pc, loc, ret, calls, hist>>

\* the thread goes on to recv_timeout whether it got the lock or not
BgTryLockAnyway ==
    /\ bg.pc = "try_lock"
    /\ analyzerLock' = IF analyzerLock = NoOne THEN "bg" ELSE analyzerLock
    /\ bg' = [bg EXCEPT !.pc = "recv"]
    /\ EngineUnchanged
    /\ UNCHANGED <<RUNNING, PAUSED, GLOBAL_ANALYZER, NOTIFY_FD, NOTIFY_THREAD, fb_data,
                   fb_running, globalLock, efd, pc, loc, ret, calls, hist>>

\* c_api.rs:146-152  analyzer_clone.try_lock(), or sleep and continue
BgTryLock ==
    /\ bg.pc = "try_lock"
    /\ IF analyzerLock = NoOne
       THEN analyzerLock' = "bg" /\ bg' = [bg EXCEPT !.pc = "recv"]
       ELSE UNCHANGED analyzerLock /\ bg' = [bg EXCEPT !.pc = "loop"]
    /\ EngineUnchanged
    /\ UNCHANGED <<RUNNING, PAUSED, GLOBAL_ANALYZER, NOTIFY_FD, NOTIFY_THREAD, fb_data,
                   fb_running, globalLock, efd, pc, loc, ret, calls, hist>>

\* c_api.rs:154-165  recv_timeout(1 ms), drop the lock, dispatch on the result
BgRecv ==
    /\ bg.pc = "recv"
    /\ \E events \in ReadyReports(Engine) :
         LET r == RecvTimeout(Engine, events)
         IN /\ SetEngine(r)
            /\ bg' = IF r.some
                     THEN [pc |-> "push_chk", pid |-> r.pid, frametime |-> r.frametime,
                           n |-> hist.obtained + 1]
                     ELSE [bg EXCEPT !.pc = "loop"]
            /\ hist' = IF r.some THEN [hist EXCEPT !.obtained = @ + 1] ELSE hist
    /\ analyzerLock' = NoOne
    /\ UNCHANGED <<clock, attachable, probe, last, ecalls>>
    /\ UNCHANGED <<RUNNING, PAUSED, GLOBAL_ANALYZER, NOTIFY_FD, NOTIFY_THREAD, fb_data,
                   fb_running, globalLock, efd, pc, loc, ret, calls>>

\* c_api.rs:48-50  FrameBuffer::push: if !running { return }
BgPushCheck ==
    /\ bg.pc = "push_chk"
    /\ bg' = [bg EXCEPT !.pc = IF fb_running THEN "push" ELSE "write"]
    /\ EngineUnchanged
    /\ UNCHANGED <<RUNNING, PAUSED, GLOBAL_ANALYZER, NOTIFY_FD, NOTIFY_THREAD, fb_data,
                   fb_running, globalLock, analyzerLock, efd, pc, loc, ret, calls, hist>>

\* FrameBuffer::push under the data lock: push_back and cond.notify_one(),
\* which makes one of the parked waiters (w) runnable, if there is any
\* push_front: the new entry goes before the pending ones
PushFront(data, pid, frametime, n) == <<[pid |-> pid, ft |-> frametime, n |-> n]>> \o data

\* VecDeque::push_back((pid, frametime))
PushBack(data, pid, frametime, n) == Append(data, [pid |-> pid, ft |-> frametime, n |-> n])

NotifyOne(w) == [pc EXCEPT ![w] = "pop_take"]

\* c_api.rs:51-53
BgPush ==
    /\ bg.pc = "push"
    /\ fb_data' = PushBack(fb_data, bg.pid, bg.frametime, bg.n)
    /\ IF Waiters = {} THEN pc' = pc ELSE \E w \in Waiters : pc' = NotifyOne(w)
    /\ loc' = [c \in Callers |->
                 IF pc[c] = "pop_wait" /\ loc[c].pid = bg.pid
                 THEN [loc[c] EXCEPT !.hit = TRUE] ELSE loc[c]]
    /\ bg' = [bg EXCEPT !.pc = "write"]
    /\ EngineUnchanged
    /\ UNCHANGED <<RUNNING, PAUSED, GLOBAL_ANALYZER, NOTIFY_FD, NOTIFY_THREAD,
                   fb_running, globalLock, analyzerLock, efd, ret, calls, hist>>

\* write(fd, 1) on an eventfd adds 1 to its counter
WriteEventfd(e) == IF e.open THEN [e EXCEPT !.count = @ + 1] ELSE e

\* the descriptor is left open
LeaveFd(e) == e

\* close(fd)
CloseFd(e) == [e EXCEPT !.open = FALSE, !.closes = @ + 1]

\* c_api.rs:160-161
BgWrite ==
    /\ bg.pc = "write"
    /\ efd' = WriteEventfd(efd)
    /\ bg' = [bg EXCEPT !.pc = "loop"]
    /\ EngineUnchanged
    /\ UNCHANGED <<RUNNING, PAUSED, GLOBAL_ANALYZER, NOTIFY_FD, NOTIFY_THREAD, fb_data,
                   fb_running, globalLock, analyzerLock, pc, loc, ret, calls, hist>>

\* c_api.rs:168  close(efd_clone) when the loop is left
BgClose ==
    /\ bg.pc = "close"
    /\ efd' = CloseFd(efd)
    /\ bg' = [bg EXCEPT !.pc = "done"]
    /\ EngineUnchanged
    /\ UNCHANGED <<RUNNING, PAUSED, GLOBAL_ANALYZER, NOTIFY_FD, NOTIFY_THREAD, fb_data,
                   fb_running, globalLock, analyzerLock, pc, loc, ret, calls, hist>>

BgStep ==
    \/ BgLoop \/ BgCheckPaused \/ BgCheckRunning \/ BgCheckStop \/ BgTryLock
    \/ BgRecv \/ BgPushCheck \/ BgPush \/ BgWrite \/ BgClose


\* ------------------------------------------- frame_analyzer_init
\* c_api.rs:103-105
InitCall(c) ==
    /\ Enter(c, "init", 0, 0)
    /\ IF RUNNING THEN Return(c, 0) ELSE Goto(c, "init_lock")
    /\ EngineUnchanged
    /\ UNCHANGED <<RUNNING, PAUSED, GLOBAL_ANALYZER, NOTIFY_FD, NOTIFY_THREAD, fb_data,
                   fb_running, globalLock, analyzerLock, efd, bg>>

\* the lock is taken and the Analyzer built without looking at what is there
InitLockUnchecked(c) ==
    /\ pc[c] = "init_lock"
    /\ globalLock = NoOne
    /\ Goto(c, "init_spawn") /\ globalLock' = c
    /\ EngineUnchanged
    /\ UNCHANGED <<RUNNING, PAUSED, GLOBAL_ANALYZER, NOTIFY_FD, NOTIFY_THREAD, fb_data,
                   fb_running, analyzerLock, efd, bg, hist, loc, calls>>

\* c_api.rs:107-110  GLOBAL_ANALYZER.lock(); already Some: return 0
InitLock(c) ==
    /\ pc[c] = "init_lock"
    /\ globalLock = NoOne
    /\ IF GLOBAL_ANALYZER = "Some"
       THEN Return(c, 0) /\ UNCHANGED globalLock
       ELSE Goto(c, "init_spawn") /\ globalLock' = c
    /\ EngineUnchanged
    /\ UNCHANGED <<RUNNING, PAUSED, GLOBAL_ANALYZER, NOTIFY_FD, NOTIFY_THREAD, fb_data,
                   fb_running, analyzerLock, efd, bg, hist, loc, calls>>

\* eventfd(0, ..): a new descriptor with counter 0
NewEventfd == [open |-> TRUE, count |-> 0, closes |-> 0]

\* thread::spawn: the new thread is about to evaluate its loop condition
SpawnThread == [pc |-> "loop", pid |-> 0, frametime |-> 0, n |-> 0]

\* c_api.rs:113-131 and 172  Analyzer::new, eventfd, thread::spawn; the store
\* to *global is seen by nobody before the lock is released
InitSpawn(c) ==
    /\ pc[c] = "init_spawn"
    /\ SetEngine(AnalyzerNew)
    /\ efd' = NewEventfd
    /\ bg' = SpawnThread
    /\ GLOBAL_ANALYZER' = "Some"
    /\ Goto(c, "init_publish")
    /\ UNCHANGED <<clock, attachable, probe, last, ecalls>>
    /\ UNCHANGED <<RUNNING, PAUSED, NOTIFY_FD, NOTIFY_THREAD, fb_data,
                   fb_running, globalLock, analyzerLock, hist, loc, calls>>

\* c_api.rs:173-174
InitPublish(c) ==
    /\ pc[c] = "init_publish"
    /\ NOTIFY_FD' = "Some"
    /\ NOTIFY_THREAD' = "Some"
    /\ Goto(c, "init_finish")
    /\ EngineUnchanged
    /\ UNCHANGED <<RUNNING, PAUSED, GLOBAL_ANALYZER, fb_data,
                   fb_running, globalLock, analyzerLock, efd, bg, hist, loc, calls>>

\* c_api.rs:175-177  RUNNING.store(true); return 0 (the guard on global drops)
InitFinish(c) ==
    /\ pc[c] = "init_finish"
    /\ RUNNING' = TRUE
    /\ globalLock' = NoOne
    /\ Return(c, 0)
    /\ EngineUnchanged
    /\ UNCHANGED <<PAUSED, GLOBAL_ANALYZER, NOTIFY_FD, NOTIFY_THREAD, fb_data,
                   fb_running, analyzerLock, efd, bg, hist, loc, calls>>

\* ------------------------------------------- frame_analyzer_attach / _detach
\* the call goes on without looking at RUNNING
EngCallUnchecked(c, op, pid) ==
    /\ Enter(c, op, pid, 0)
    /\ Goto(c, "eng_lock")
    /\ EngineUnchanged
    /\ UNCHANGED <<RUNNING, PAUSED, GLOBAL_ANALYZER, NOTIFY_FD, NOTIFY_THREAD, fb_data,
                   fb_running, globalLock, analyzerLock, efd, bg>>

\* c_api.rs:183-185, 257-259
EngCall(c, op, pid) ==
    /\ Enter(c, op, pid, 0)
    /\ IF RUNNING THEN Goto(c, "eng_lock") ELSE Return(c, -1)
    /\ EngineUnchanged
    /\ UNCHANGED <<RUNNING, PAUSED, GLOBAL_ANALYZER, NOTIFY_FD, NOTIFY_THREAD, fb_data,
                   fb_running, globalLock, analyzerLock, efd, bg>>

AttachCall(c, pid) == EngCall(c, "attach", pid)

DetachCall(c, pid) == EngCall(c, "detach", pid)

\* c_api.rs:187-191, 261-265  GLOBAL_ANALYZER.lock(), held until the return
EngLock(c) ==
    /\ pc[c] = "eng_lock"
    /\ globalLock = NoOne
    /\ IF GLOBAL_ANALYZER = "Some"
       THEN Goto(c, "eng_try") /\ globalLock' = c
       ELSE Return(c, -1) /\ UNCHANGED globalLock
    /\ EngineUnchanged
    /\ UNCHANGED <<RUNNING, PAUSED, GLOBAL_ANALYZER, NOTIFY_FD, NOTIFY_THREAD, fb_data,
                   fb_running, analyzerLock, efd, bg, hist, loc, calls>>

\* for _ in 0..50
TryLockAttempts == 50

\* the loop makes one attempt more than n
EngTryOneMore(c, n) ==
    /\ pc[c] = "eng_try"
    /\ IF analyzerLock = NoOne
       THEN /\ analyzerLock' = c
            /\ Goto(c, "eng_do")
            /\ UNCHANGED <<loc, globalLock>>
       ELSE /\ UNCHANGED analyzerLock
            /\ loc' = [loc EXCEPT ![c].tries = @ + 1]
            /\ IF loc[c].tries + 1 >= n + 1
               THEN Return(c, -1) /\ globalLock' = NoOne
               ELSE Goto(c, "eng_try") /\ UNCHANGED globalLock
    /\ EngineUnchanged
    /\ UNCHANGED <<RUNNING, PAUSED, GLOBAL_ANALYZER, NOTIFY_FD, NOTIFY_THREAD, fb_data,
                   fb_running, efd, bg, hist, calls>>

\* c_api.rs:194-208, 267-281  one try_lock of the retry loop of n attempts
EngTryUpTo(c, n) ==
    /\ pc[c] = "eng_try"
    /\ IF analyzerLock = NoOne
       THEN /\ analyzerLock' = c
            /\ Goto(c, "eng_do")
            /\ UNCHANGED <<loc, globalLock>>
       ELSE /\ UNCHANGED analyzerLock
            /\ loc' = [loc EXCEPT ![c].tries = @ + 1]
            /\ IF loc[c].tries + 1 >= n
               THEN Return(c, -1) /\ globalLock' = NoOne
               ELSE Goto(c, "eng_try") /\ UNCHANGED globalLock
    /\ EngineUnchanged
    /\ UNCHANGED <<RUNNING, PAUSED, GLOBAL_ANALYZER, NOTIFY_FD, NOTIFY_THREAD, fb_data,
                   fb_running, efd, bg, hist, calls>>

\* the retry loop, cut to LockAttempts attempts where the whole gateway runs
EngTry(c) == EngTryUpTo(c, LockAttempts)

\* c_api.rs:210-214, 283-287  the Engine call; both guards drop on return
EngDo(c) ==
    /\ pc[c] = "eng_do"
    /\ LET r == IF loc[c].op = "attach"
                THEN AttachApp(Engine, loc[c].pid, loc[c].pid \in attachable)
                ELSE DetachApp(Engine, loc[c].pid)
       IN /\ SetEngine(r) /\ Return(c, IF r.ok THEN 0 ELSE -1)
          /\ hist' = IF ~r.ok THEN hist
                     ELSE IF loc[c].op = "detach"
                     THEN [hist EXCEPT !.detached = @ \cup {loc[c].pid}]
                     ELSE [hist EXCEPT !.detached = @ \ {loc[c].pid}]
    /\ analyzerLock' = NoOne
    /\ globalLock' = NoOne
    /\ UNCHANGED <<clock, attachable, probe, last, ecalls>>
    /\ UNCHANGED <<RUNNING, PAUSED, GLOBAL_ANALYZER, NOTIFY_FD, NOTIFY_THREAD, fb_data,
                   fb_running, efd, bg, loc, calls>>

\* ------------------------------------------- frame_analyzer_pause / _resume
\* c_api.rs:342-344
PauseCall(c) ==
    /\ Enter(c, "pause", 0, 0)
    /\ IF RUNNING THEN Goto(c, "pause_store") ELSE Return(c, -1)
    /\ EngineUnchanged
    /\ UNCHANGED <<RUNNING, PAUSED, GLOBAL_ANALYZER, NOTIFY_FD, NOTIFY_THREAD, fb_data,
                   fb_running, globalLock, analyzerLock, efd, bg>>

\* c_api.rs:346-347
PauseStore(c) ==
    /\ pc[c] = "pause_store"
    /\ PAUSED' = TRUE
    /\ hist' = [hist EXCEPT !.pauseHeld = TRUE]
    /\ Return(c, 0)
    /\ EngineUnchanged
    /\ UNCHANGED <<RUNNING, GLOBAL_ANALYZER, NOTIFY_FD, NOTIFY_THREAD, fb_data,
                   fb_running, globalLock, analyzerLock, efd, bg, loc, calls>>

\* c_api.rs:353-355
ResumeCall(c) ==
    /\ Enter(c, "resume", 0, 0)
    /\ IF RUNNING THEN Goto(c, "resume_store") ELSE Return(c, -1)
    /\ EngineUnchanged
    /\ UNCHANGED <<RUNNING, PAUSED, GLOBAL_ANALYZER, NOTIFY_FD, NOTIFY_THREAD, fb_data,
                   fb_running, globalLock, analyzerLock, efd, bg>>

\* c_api.rs:357
ResumeStore(c) ==
    /\ pc[c] = "resume_store"
    /\ PAUSED' = FALSE
    /\ Goto(c, "resume_notify")
    /\ EngineUnchanged
    /\ UNCHANGED <<RUNNING, GLOBAL_ANALYZER, NOTIFY_FD, NOTIFY_THREAD, fb_data,
                   fb_running, globalLock, analyzerLock, efd, bg, hist, loc, calls>>

\* c_api.rs:358-359
ResumeNotify(c) ==
    /\ pc[c] = "resume_notify"
    /\ bg' = WakePaused(bg)
    /\ hist' = [hist EXCEPT !.resumeHeld = loc[c].onPaused]
    /\ Return(c, 0)
    /\ EngineUnchanged
    /\ UNCHANGED <<RUNNING, PAUSED, GLOBAL_ANALYZER, NOTIFY_FD, NOTIFY_THREAD, fb_data,
                   fb_running, globalLock, analyzerLock, efd, loc, calls>>


\* ------------------------------------------- frame_analyzer_get_notify_fd
\* the number eventfd() returned to init(): the lowest free descriptor number,
\* the same one again after a close
NotifyFdNo == 3

\* c_api.rs:331-333
NotifyFdCall(c) ==
    /\ Enter(c, "get_notify_fd", 0, 0)
    /\ IF RUNNING THEN Goto(c, "nfd_read") ELSE Return(c, -1)
    /\ EngineUnchanged
    /\ UNCHANGED <<RUNNING, PAUSED, GLOBAL_ANALYZER, NOTIFY_FD, NOTIFY_THREAD, fb_data,
                   fb_running, globalLock, analyzerLock, efd, bg>>

\* c_api.rs:335-336  NOTIFY_FD.lock(); the stored descriptor, or -1
NotifyFdRead(c) ==
    /\ pc[c] = "nfd_read"
    /\ Return(c, IF NOTIFY_FD = "Some" THEN NotifyFdNo ELSE -1)
    /\ EngineUnchanged
    /\ UNCHANGED <<RUNNING, PAUSED, GLOBAL_ANALYZER, NOTIFY_FD, NOTIFY_THREAD, fb_data,
                   fb_running, globalLock, analyzerLock, efd, bg, hist, loc, calls>>

\* ------------------------------------------- frame_analyzer_get_frametime
\* c_api.rs:224-226 (out_frametime is a valid pointer)
GetCall(c, pid, t) ==
    /\ Enter(c, "get_frametime", pid, t)
    /\ IF RUNNING THEN Goto(c, "get_ack") ELSE Return(c, -1)
    /\ EngineUnchanged
    /\ UNCHANGED <<RUNNING, PAUSED, GLOBAL_ANALYZER, NOTIFY_FD, NOTIFY_THREAD, fb_data,
                   fb_running, globalLock, analyzerLock, efd, bg>>

\* read(fd, 8 bytes) on a non-blocking eventfd: takes the counter to 0
ReadEventfd(e) == IF e.open THEN [e EXCEPT !.count = 0] ELSE e

\* c_api.rs:237-239
GetAck(c) ==
    /\ pc[c] = "get_ack"
    /\ efd' = IF NOTIFY_FD = "Some" THEN ReadEventfd(efd) ELSE efd
    /\ Goto(c, "pop_check")
    /\ EngineUnchanged
    /\ UNCHANGED <<RUNNING, PAUSED, GLOBAL_ANALYZER, NOTIFY_FD, NOTIFY_THREAD, fb_data,
                   fb_running, globalLock, analyzerLock, bg, hist, loc, calls>>

\* c_api.rs:57-59  FrameBuffer::pop: if !running { return None }
PopCheck(c) ==
    /\ pc[c] = "pop_check"
    /\ IF fb_running THEN Goto(c, "pop_enter") ELSE Return(c, -1)
    /\ EngineUnchanged
    /\ UNCHANGED <<RUNNING, PAUSED, GLOBAL_ANALYZER, NOTIFY_FD, NOTIFY_THREAD, fb_data,
                   fb_running, globalLock, analyzerLock, efd, bg, hist, loc, calls>>

\* c_api.rs:61-62  data.lock(), then cond.wait_timeout: the caller parks
PopEnter(c) ==
    /\ pc[c] = "pop_enter"
    /\ Goto(c, "pop_wait")
    /\ EngineUnchanged
    /\ UNCHANGED <<RUNNING, PAUSED, GLOBAL_ANALYZER, NOTIFY_FD, NOTIFY_THREAD, fb_data,
                   fb_running, globalLock, analyzerLock, efd, bg, hist, loc, calls>>

\* wait_timeout returns because the timeout ran out (or spuriously)
PopTimeout(c) ==
    /\ pc[c] = "pop_wait"
    /\ Goto(c, "pop_take")
    /\ EngineUnchanged
    /\ UNCHANGED <<RUNNING, PAUSED, GLOBAL_ANALYZER, NOTIFY_FD, NOTIFY_THREAD, fb_data,
                   fb_running, globalLock, analyzerLock, efd, bg, hist, loc, calls>>

\* data.iter().position(|(p, _)| *p == pid): index of the first entry of pid
\* at or after i, 0 when there is none
RECURSIVE PositionFrom(_, _, _)
PositionFrom(data, pid, i) ==
    IF i > Len(data) THEN 0
    ELSE IF data[i].pid = pid THEN i
    ELSE PositionFrom(data, pid, i + 1)

\* rposition: the last entry of pid instead of the first
PositionOfLast(data, pid) ==
    IF \E i \in 1..Len(data) : data[i].pid = pid
    THEN CHOOSE i \in 1..Len(data) :
            data[i].pid = pid /\ \A j \in (i + 1)..Len(data) : data[j].pid # pid
    ELSE 0

Position(data, pid) == PositionFrom(data, pid, 1)

\* VecDeque::remove(pos)
Remove(data, pos) == SubSeq(data, 1, pos - 1) \o SubSeq(data, pos + 1, Len(data))

NANOS_PER_SEC == 1000000000

\* c_api.rs:243-246  FrameTime { secs: as_secs(), nanos: subsec_nanos() }
FrameTimeOf(ft) == [secs |-> ft \div NANOS_PER_SEC, nanos |-> ft % NANOS_PER_SEC]

\* c_api.rs:63-66 and 241-251  scan, remove the match, fill *out_frametime
PopTake(c) ==
    /\ pc[c] = "pop_take"
    /\ LET pos == Position(fb_data, loc[c].pid)
       IN IF pos = 0
          THEN /\ Return(c, -1)
               /\ loc' = [loc EXCEPT ![c].pos = 0]
               /\ UNCHANGED <<fb_data, hist>>
          ELSE /\ Return(c, 0)
               /\ fb_data' = Remove(fb_data, pos)
               /\ loc' = [loc EXCEPT ![c].pos = pos,
                                     ![c].out = FrameTimeOf(fb_data[pos].ft)]
               /\ hist' = [hist EXCEPT !.returned[loc[c].pid] = fb_data[pos].n]
    /\ EngineUnchanged
    /\ UNCHANGED <<RUNNING, PAUSED, GLOBAL_ANALYZER, NOTIFY_FD, NOTIFY_THREAD,
                   fb_running, globalLock, analyzerLock, efd, bg, calls>>

\* the statements of get_frametime after its RUNNING test
GetStep(c) == GetAck(c) \/ PopCheck(c) \/ PopEnter(c) \/ PopTimeout(c) \/ PopTake(c)

\* ------------------------------------------- frame_analyzer_destroy
InDestroy(c) == pc[c] # "idle" /\ loc[c].op = "destroy"

\* c_api.rs:293-295
DestroyCall(c) ==
    /\ \A d \in Callers : ~InDestroy(d)
    /\ Enter(c, "destroy", 0, 0)
    /\ IF RUNNING THEN Goto(c, "des_unpause") ELSE Return(c, 0)
    /\ EngineUnchanged
    /\ UNCHANGED <<RUNNING, PAUSED, GLOBAL_ANALYZER, NOTIFY_FD, NOTIFY_THREAD, fb_data,
                   fb_running, globalLock, analyzerLock, efd, bg>>

\* c_api.rs:298
DestroyUnpause(c) ==
    /\ pc[c] = "des_unpause"
    /\ PAUSED' = FALSE
    /\ Goto(c, "des_notify")
    /\ EngineUnchanged
    /\ UNCHANGED <<RUNNING, GLOBAL_ANALYZER, NOTIFY_FD, NOTIFY_THREAD, fb_data,
                   fb_running, globalLock, analyzerLock, efd, bg, hist, loc, calls>>

\* c_api.rs:299
DestroyNotify(c) ==
    /\ pc[c] = "des_notify"
    /\ bg' = WakePaused(bg)
    /\ Goto(c, "des_stop")
    /\ EngineUnchanged
    /\ UNCHANGED <<RUNNING, PAUSED, GLOBAL_ANALYZER, NOTIFY_FD, NOTIFY_THREAD, fb_data,
                   fb_running, globalLock, analyzerLock, efd, hist, loc, calls>>

\* c_api.rs:301
DestroyStop(c) ==
    /\ pc[c] = "des_stop"
    /\ RUNNING' = FALSE
    /\ Goto(c, "des_fbstop")
    /\ EngineUnchanged
    /\ UNCHANGED <<PAUSED, GLOBAL_ANALYZER, NOTIFY_FD, NOTIFY_THREAD, fb_data,
                   fb_running, globalLock, analyzerLock, efd, bg, hist, loc, calls>>

\* c_api.rs:302, 70  FrameBuffer::stop: running.store(false)
DestroyFbStop(c) ==
    /\ pc[c] = "des_fbstop"
    /\ fb_running' = FALSE
    /\ Goto(c, "des_fbnotify")
    /\ EngineUnchanged
    /\ UNCHANGED <<RUNNING, PAUSED, GLOBAL_ANALYZER, NOTIFY_FD, NOTIFY_THREAD, fb_data,
                   globalLock, analyzerLock, efd, bg, hist, loc, calls>>

\* c_api.rs:71  cond.notify_all(): every parked get_frametime becomes runnable
DestroyFbNotify(c) ==
    /\ pc[c] = "des_fbnotify"
    /\ pc' = [d \in Callers |-> IF d = c THEN "des_join"
                                ELSE IF pc[d] = "pop_wait" THEN "pop_take" ELSE pc[d]]
    /\ UNCHANGED ret
    /\ EngineUnchanged
    /\ UNCHANGED <<RUNNING, PAUSED, GLOBAL_ANALYZER, NOTIFY_FD, NOTIFY_THREAD, fb_data,
                   fb_running, globalLock, analyzerLock, efd, bg, hist, loc, calls>>

\* c_api.rs:305-307  NOTIFY_THREAD.take(), and join() returns once the thread
\* has finished
DestroyJoin(c) ==
    /\ pc[c] = "des_join"
    /\ NOTIFY_THREAD = "Some" => bg.pc = "done"
    /\ NOTIFY_THREAD' = "None"
    /\ Goto(c, "des_clean")
    /\ EngineUnchanged
    /\ UNCHANGED <<RUNNING, PAUSED, GLOBAL_ANALYZER, NOTIFY_FD, fb_data,
                   fb_running, globalLock, analyzerLock, efd, bg, hist, loc, calls>>

\* the last Arc<Mutex<Analyzer>> goes away: the Analyzer is dropped, with its
\* targets and its Poll
DropAnalyzer(e) == [DetachApps(e) EXCEPT !.poll = NonePoll]

\* c_api.rs:310-316  detach_apps under try_lock, *global = None: the Arc held by
\* GLOBAL_ANALYZER is released, and it is the last one once the thread (which
\* owns the other) has finished
DestroyClean(c) ==
    /\ pc[c] = "des_clean"
    /\ globalLock = NoOne
    /\ globalLock' = c
    /\ LET detached == IF GLOBAL_ANALYZER = "Some" /\ analyzerLock = NoOne
                       THEN DetachApps(Engine) ELSE Engine
       IN SetEngine(IF GLOBAL_ANALYZER = "Some" /\ bg.pc \in {"none", "done"}
                    THEN DropAnalyzer(detached) ELSE detached)
    /\ GLOBAL_ANALYZER' = "None"
    /\ Goto(c, "des_close")
    /\ UNCHANGED <<clock, attachable, probe, last, ecalls>>
    /\ UNCHANGED <<RUNNING, PAUSED, NOTIFY_FD, NOTIFY_THREAD, fb_data,
                   fb_running, analyzerLock, efd, bg, hist, loc, calls>>

\* c_api.rs:319-325  close(fd) if NOTIFY_FD is Some, NOTIFY_FD = None, return 0
DestroyClose(c) ==
    /\ pc[c] = "des_close"
    /\ efd' = IF NOTIFY_FD = "Some" THEN CloseFd(efd) ELSE efd
    /\ NOTIFY_FD' = "None"
    /\ globalLock' = NoOne
    /\ Return(c, 0)
    /\ EngineUnchanged
    /\ UNCHANGED <<RUNNING, PAUSED, GLOBAL_ANALYZER, NOTIFY_THREAD, fb_data,
                   fb_running, analyzerLock, bg, hist, loc, calls>>

\* ------------------------------------------- the gateway as a whole
\* the frames of the probed processes, while the gateway runs
FrameUpTo(pid, limit) ==
    /\ pid \in DOMAIN map
    /\ \E dt \in 1..2 :
         /\ clock + dt <= limit
         /\ clock' = clock + dt
         /\ ring' = [ring EXCEPT ![pid] = Append(@, clock + dt)]
    /\ UNCHANGED <<poll, map, buffer, attachable, probe, last, ecalls>>
    /\ UNCHANGED gvars

Frame(pid) == FrameUpTo(pid, MaxClock)

CallerStep(c) ==
    \/ InitLock(c) \/ InitSpawn(c) \/ InitPublish(c) \/ InitFinish(c)
    \/ EngLock(c) \/ EngTry(c) \/ EngDo(c)
    \/ PauseStore(c)
    \/ ResumeStore(c) \/ ResumeNotify(c)
    \/ GetAck(c) \/ PopCheck(c) \/ PopEnter(c) \/ PopTimeout(c) \/ PopTake(c)
    \/ NotifyFdRead(c)
    \/ DestroyUnpause(c) \/ DestroyNotify(c) \/ DestroyStop(c) \/ DestroyFbStop(c)
    \/ DestroyFbNotify(c) \/ DestroyJoin(c) \/ DestroyClean(c) \/ DestroyClose(c)

NewCall(c) ==
    \/ InitCall(c)
    \/ DestroyCall(c)
    \/ PauseCall(c)
    \/ ResumeCall(c)
    \/ NotifyFdCall(c)
    \/ \E pid \in Pids : AttachCall(c, pid)
    \/ \E pid \in Pids : DetachCall(c, pid)
    \/ \E pid \in Pids, t \in CallTimeouts : GetCall(c, pid, t)

Init ==
    /\ EngineInit
    /\ GatewayInit
    /\ attachable = Pids

Next ==
    \/ BgStep
    \/ BgSpuriousWake
    \/ \E c \in Callers : CallerStep(c)
    \/ \E c \in Callers : NewCall(c)
    \/ \E pid \in Pids : Frame(pid)

Spec == Init /\ [][Next]_vars

\* ------------------------------------------- readers of a running gateway
\* The gateway after init(), attach(1), attach(2) and a first frame of each
\* process collected: both targets hold a timestamp, the thread is in its
\* loop, nobody pauses or destroys. Callers only read events.
QInit ==
    /\ poll \in {NonePoll, [some |-> TRUE, reg |-> Pids]}
    /\ map = [p \in Pids |-> [last |-> p]]
    /\ buffer = <<>>
    /\ ring = [p \in Pids |-> <<>>]
    /\ clock = Cardinality(Pids)
    /\ attachable = Pids
    /\ probe = NoProbe
    /\ last = NoCall
    /\ ecalls = 0
    /\ RUNNING = TRUE
    /\ PAUSED = FALSE
    /\ GLOBAL_ANALYZER = "Some"
    /\ NOTIFY_FD = "Some"
    /\ NOTIFY_THREAD = "Some"
    /\ fb_data = <<>>
    /\ fb_running = TRUE
    /\ globalLock = NoOne
    /\ analyzerLock = NoOne
    /\ efd = NewEventfd
    /\ bg = SpawnThread
    /\ pc = [c \in Callers |-> "idle"]
    /\ loc = [c \in Callers |-> NoLocals]
    /\ ret = [c \in Callers |-> 0]
    /\ calls = MaxQCalls
    /\ hist = NoHist

QFrame(pid) == FrameUpTo(pid, MaxQClock)

QNext ==
    \/ BgLoop \/ BgCheckPaused \/ BgCheckStop \/ BgTryLock
    \/ BgRecv \/ BgPushCheck \/ BgPush \/ BgWrite
    \/ \E c \in Callers, pid \in Pids, t \in CallTimeouts : GetCall(c, pid, t)
    \/ \E c \in Callers : GetAck(c) \/ PopCheck(c) \/ PopEnter(c) \/ PopTimeout(c) \/ PopTake(c)
    \/ \E pid \in Pids : QFrame(pid)

QueueSpec == QInit /\ [][QNext]_vars

\* ------------------------------------------- attach/detach against the thread
\* The gateway after init(): an empty Engine, the thread in its loop taking and
\* dropping the Analyzer lock. One thread attaches and detaches with the retry
\* loop of the code (TryLockAttempts attempts); a second calling thread would
\* wait on GLOBAL_ANALYZER and never meet the first on the Analyzer lock.
LCallers == {"c1"}

LInit ==
    /\ SetEngineInit
    /\ clock = 0
    /\ attachable \in SUBSET Pids
    /\ probe = NoProbe
    /\ last = NoCall
    /\ ecalls = 0
    /\ RUNNING = TRUE
    /\ PAUSED = FALSE
    /\ GLOBAL_ANALYZER = "Some"
    /\ NOTIFY_FD = "Some"
    /\ NOTIFY_THREAD = "Some"
    /\ fb_data = <<>>
    /\ fb_running = TRUE
    /\ globalLock = NoOne
    /\ analyzerLock = NoOne
    /\ efd = NewEventfd
    /\ bg = SpawnThread
    /\ pc = [c \in Callers |-> "idle"]
    /\ loc = [c \in Callers |-> NoLocals]
    /\ ret = [c \in Callers |-> 0]
    /\ calls = MaxLCalls
    /\ hist = NoHist

LEngTry(c) == EngTryUpTo(c, TryLockAttempts)

LNext ==
    \/ BgLoop \/ BgCheckPaused \/ BgCheckStop \/ BgTryLock \/ BgRecv
    \/ \E c \in LCallers, pid \in Pids : AttachCall(c, pid)
    \/ \E c \in LCallers, pid \in Pids : DetachCall(c, pid)
    \/ \E c \in LCallers : EngLock(c) \/ LEngTry(c) \/ EngDo(c)

LockSpec == LInit /\ [][LNext]_vars

\* ------------------------------------------- detach, then read
\* The running gateway of QInit; one thread detaches pids and reads events, one
\* call after the other, while the background thread collects.
DNext ==
    \/ BgLoop \/ BgCheckPaused \/ BgCheckStop \/ BgTryLock
    \/ BgRecv \/ BgPushCheck \/ BgPush \/ BgWrite
    \/ \E pid \in Pids : QFrame(pid)
    \/ \E c \in LCallers, pid \in Pids : DetachCall(c, pid)
    \/ \E c \in LCallers : EngLock(c) \/ EngTry(c) \/ EngDo(c)
    \/ \E c \in LCallers, pid \in Pids, t \in CallTimeouts : GetCall(c, pid, t)
    \/ \E c \in LCallers : GetStep(c)

DetachSpec == QInit /\ [][DNext]_vars

\* ------------------------------------------- one reader and the wall clock
\* The gateway after init() with no event arriving: one get_frametime call,
\* its timeout_ms drawn from TimeoutInputs. Here clock counts the milliseconds
\* since the call was made; time passes while the call is parked in
\* wait_timeout, which returns when its Duration has elapsed.
TimeoutInputs == {-1, 0, 1, 2, 100, 5000, 5001, 6000}

TInit ==
    /\ SetEngineInit
    /\ clock = 0
    /\ attachable = Pids
    /\ probe = NoProbe
    /\ last = NoCall
    /\ ecalls = 0
    /\ RUNNING = TRUE
    /\ PAUSED = FALSE
    /\ GLOBAL_ANALYZER = "Some"
    /\ NOTIFY_FD = "Some"
    /\ NOTIFY_THREAD = "Some"
    /\ fb_data = <<>>
    /\ fb_running = TRUE
    /\ globalLock = NoOne
    /\ analyzerLock = NoOne
    /\ efd = NewEventfd
    /\ bg = SpawnThread
    /\ pc = [c \in Callers |-> "idle"]
    /\ loc = [c \in Callers |-> NoLocals]
    /\ ret = [c \in Callers |-> 0]
    /\ calls = 1
    /\ hist = NoHist

\* a millisecond passes while the call is parked, up to its wake-up time
TTick(c) ==
    /\ pc[c] = "pop_wait"
    /\ clock < loc[c].timeout
    /\ clock' = clock + 1
    /\ UNCHANGED <<poll, map, buffer, ring, attachable, probe, last, ecalls>>
    /\ UNCHANGED gvars

\* c_api.rs:62  wait_timeout(data, timeout) returns: the Duration has elapsed
TExpire(c) == clock >= loc[c].timeout /\ PopTimeout(c)

TNext ==
    \/ \E c \in LCallers, pid \in Pids, t \in TimeoutInputs : GetCall(c, pid, t)
    \/ \E c \in LCallers : GetAck(c) \/ PopCheck(c) \/ PopEnter(c) \/ PopTake(c)
    \/ \E c \in LCallers : TTick(c) \/ TExpire(c)

TimerSpec == TInit /\ [][TNext]_vars

\* ------------------------------------------------------------ properties

\* C6: the multiplexer's registered set is the key set of the mapping after
\* every attach, detach and detach_all, and at the start of every wait of a
\* receive.
C6_RegisteredIsKeySet ==
    /\ last.op \in {"attach", "detach", "detach_all"} => Registered = DOMAIN map
    /\ last.op = "recv" /\ last.waited => last.waitReg = last.waitKeys

\* C7: over attach/detach calls whose probe attachment succeeds, contains(pid)
\* holds exactly when the last membership call on pid was an attach, and every
\* such call returns success.
C7_NetAttachState ==
    /\ \A pid \in Pids : Contains(Engine, pid) <=> pid \in last.net
    /\ (\/ last.op = "attach" /\ last.pid \in attachable
        \/ last.op = "detach") => last.ok

Idle(c) == pc[c] = "idle"

\* no pause, resume or destroy call is in progress
NoControlCall == \A c \in Callers : Idle(c) \/ loc[c].op \notin {"pause", "resume", "destroy"}

\* the thread is parked on PAUSE_COND and has not been notified
Parked == bg.pc = "cv_wait"

\* C1: destroy() completes: a destroy that waits in join() while no other call
\* is in progress (so nobody is left to notify PAUSE_COND) never finds the
\* background thread parked on the pause condition variable.
C1_DestroyCompletes ==
    \A c \in Callers :
        (pc[c] = "des_join" /\ \A d \in Callers \ {c} : Idle(d)) => ~Parked

\* the gateway as a first init() leaves it
CleanStart ==
    /\ RUNNING
    /\ fb_data = <<>>
    /\ fb_running
    /\ ~PAUSED
    /\ DOMAIN map = {}
    /\ NOTIFY_FD = "Some"

\* C2: an init() that follows a destroy() leaves the gateway as a first init()
\* does: the pending-event queue is empty and accepts events, the pause flag
\* is clear and the Engine mapping is empty.
C2_InitAfterDestroyIsClean ==
    [][\A c \in Callers : (pc[c] = "init_finish" /\ pc'[c] = "idle") => CleanStart']_vars

\* C3: while the gateway is initialized (RUNNING is set: no destroy() has
\* stopped it), the background thread has not left its collection loop.
C3_ThreadRunsUntilDestroy == RUNNING => bg.pc \notin {"close", "done"}

\* a pause() has returned success, and no resume or destroy was called since
PauseInForce == hist.pauseHeld /\ NoControlCall

\* C4: while a pause() that returned success is in force (no resume or destroy
\* called since, none in progress), no event is appended to the pending-event
\* queue and the notification descriptor is not signalled.
C4_NoEventsWhilePaused ==
    [][PauseInForce => /\ Len(fb_data') <= Len(fb_data)
                       /\ efd'.count <= efd.count]_vars

\* C5: once resume() has returned success on a paused gateway, and as long as
\* nobody pauses or destroys it, the background thread is not left parked on
\* the pause condition variable (where only a further notification, which no
\* one is going to send, would let it collect again).
C5_ResumeRestartsCollection ==
    (hist.resumeHeld /\ NoControlCall /\ RUNNING /\ ~PAUSED) => ~Parked

\* C8: when an attach(pid) and a detach(pid) that ran concurrently have both
\* returned, pid is in the mapping and registered, or is in none of mapping,
\* registration and ready queue.
C8_ConcurrentAttachDetach ==
    (hist.overlap /\ \A c \in Callers : Idle(c)) =>
        \A c \in Callers :
            LET pid == loc[c].pid
            IN \/ pid \in DOMAIN map /\ pid \in Registered
               \/ pid \notin DOMAIN map /\ pid \notin Registered /\ pid \notin Range(buffer)

\* the initial states of QueueSpec are states of the whole gateway
QInitReached ==
    /\ map = [p \in Pids |-> [last |-> p]]
    /\ buffer = <<>> /\ ring = [p \in Pids |-> <<>>] /\ clock = Cardinality(Pids)
    /\ RUNNING /\ ~PAUSED /\ fb_data = <<>> /\ fb_running
    /\ bg.pc = "loop" /\ \A c \in Callers : Idle(c)
    /\ analyzerLock = NoOne /\ globalLock = NoOne
    /\ efd = NewEventfd /\ NOTIFY_FD = "Some" /\ NOTIFY_THREAD = "Some"

QInitReachedNoPoll == QInitReached /\ poll = NonePoll

QInitReachedPoll == QInitReached /\ poll = [some |-> TRUE, reg |-> Pids]

\* C9: an event appended for pid while a get_frametime(pid, T) call is parked
\* on the queue's condition variable wakes that call (callers wait for
\* different pids): no call stays parked after a matching event was appended.
C9_MatchingPushWakesWaiter ==
    \A c \in Callers :
        (pc[c] = "pop_wait" /\ \A d \in Callers \ {c} : Idle(d) \/ loc[d].pid # loc[c].pid)
            => ~loc[c].hit

\* entry i of data is the earliest entry of pid
FirstMatch(data, pid, i) ==
    /\ i \in 1..Len(data)
    /\ data[i].pid = pid
    /\ \A j \in 1..(i - 1) : data[j].pid # pid

\* data with entry i taken out, the others in order
WithoutEntry(data, i) == [k \in 1..(Len(data) - 1) |-> IF k < i THEN data[k] ELSE data[k + 1]]

NoDestroy == \A c \in Callers : ~InDestroy(c)

\* C11: between a successful init() and the next destroy(), the descriptor
\* get_notify_fd() returns is open: whenever a get_notify_fd() call returns a
\* descriptor and no destroy() is in progress, the eventfd of the last init()
\* has not been closed.
C11_NotifyFdStaysOpen ==
    \A c \in Callers :
        (Idle(c) /\ loc[c].op = "get_notify_fd" /\ ret[c] = NotifyFdNo
            /\ RUNNING /\ NoDestroy) => efd.open

\* C12: when a destroy() that found the gateway initialized returns, the
\* background thread has terminated, the eventfd is closed, the Engine holds no
\* attachment, no Poll and no ring, and the globals are empty: nothing that
\* init() or attach() opened is left open.
C12_DestroyLeaksNothing ==
    [][\A c \in Callers : (pc[c] = "des_close" /\ pc'[c] = "idle") =>
          /\ ret'[c] = 0
          /\ bg'.pc = "done"
          /\ ~efd'.open
          /\ DOMAIN map' = {} /\ ~poll'.some /\ buffer' = <<>>
          /\ \A p \in Pids : ring'[p] = <<>>
          /\ GLOBAL_ANALYZER' = "None" /\ NOTIFY_FD' = "None"
          /\ NOTIFY_THREAD' = "None"]_vars

\* a destroy() has returned on a gateway that had a process attached and
\* producing frames
C12_Witness ==
    \E c \in Callers : /\ Idle(c) /\ loc[c].op = "destroy" /\ ret[c] = 0
                        /\ ~RUNNING /\ GLOBAL_ANALYZER = "None"
                        /\ efd.closes > 0 /\ clock > 0

\* this step is caller c making the foreign call op
Starts(c, op) ==
    /\ calls' = calls - 1
    /\ hist'.who = c
    /\ loc'[c].op = op

\* this step is the return of caller c from the foreign call op
Returns(c, op) ==
    /\ loc'[c].op = op
    /\ pc'[c] = "idle"
    /\ pc[c] # "idle" \/ Starts(c, op)

\* the state of the gateway and of the Engine, without the callers' own
GatewayState ==
    <<poll, map, buffer, ring, RUNNING, PAUSED, GLOBAL_ANALYZER, NOTIFY_FD,
      NOTIFY_THREAD, fb_data, fb_running, efd, bg>>

\* C13: init() is idempotent and one-time: every init() returns 0; an Analyzer,
\* a thread and an eventfd are created only when none exists (no thread alive,
\* no eventfd open, globals empty); an init() on an initialized gateway
\* returns at once and changes nothing.
C13_InitOnce ==
    [][\A c \in Callers :
          /\ Returns(c, "init") => ret'[c] = 0
          /\ (pc[c] = "init_spawn" /\ pc'[c] = "init_publish") =>
                /\ bg.pc \in {"none", "done"}
                /\ ~efd.open
                /\ ~RUNNING /\ NOTIFY_FD = "None" /\ NOTIFY_THREAD = "None"
          /\ (Starts(c, "init") /\ RUNNING) =>
                pc'[c] = "idle" /\ UNCHANGED GatewayState]_vars

\* both callers have called init() and have returned from it, and nothing else
\* was called
C13_Witness ==
    /\ \A c \in Callers : Idle(c) /\ loc[c].op = "init" /\ ret[c] = 0
    /\ calls = MaxCalls - 2
    /\ RUNNING

\* the status each entry point returns on a gateway that is not running
NotRunningStatus(op) == IF op \in {"init", "destroy"} THEN 0 ELSE -1

\* C14: on a gateway that is not initialized (RUNNING is clear), attach,
\* detach, get_frametime, pause, resume and get_notify_fd return -1 and
\* destroy returns 0, at once and without changing any state of the gateway or
\* of the Engine.
C14_NotInitializedCalls ==
    [][\A c \in Callers :
          \A op \in {"attach", "detach", "get_frametime", "pause", "resume",
                      "get_notify_fd", "destroy"} :
              (Starts(c, op) /\ ~RUNNING) =>
                  /\ pc'[c] = "idle"
                  /\ ret'[c] = NotRunningStatus(op)
                  /\ UNCHANGED GatewayState]_vars

\* after an init() and a destroy(), an attach has been refused
C14_Witness ==
    \E c \in Callers : /\ Idle(c) /\ loc[c].op = "attach" /\ ret[c] = -1
                        /\ ~RUNNING /\ GLOBAL_ANALYZER = "None" /\ efd.closes > 0

\* position of a (path, symbol) pair in the path-major order
PathIndex(path) == CHOOSE i \in 1..Len(libgui_paths) : libgui_paths[i] = path

SymbolIndex(symbol) ==
    CHOOSE j \in 1..Len(queue_buffer_symbols) : queue_buffer_symbols[j] = symbol

Rank(pair) == (PathIndex(pair[1]) - 1) * Len(queue_buffer_symbols) + SymbolIndex(pair[2])

\* C15: the attach calls made are exactly the pairs of existing paths, in
\* path-major order, up to and including the first pair whose attach succeeds
\* (all of them when none succeeds); the result is that first pair, and the
\* error is AppNotFound exactly when no pair of an existing path attaches.
C15_ProbeSearchOrder ==
    probe.res.done =>
        LET r == probe.res
            Candidates == probe.exists \X Range(queue_buffer_symbols)
            Winners == {pair \in Candidates : pair \in probe.attaches}
            First == CHOOSE w \in Winners : \A v \in Winners : Rank(w) <= Rank(v)
            Expected == IF Winners = {} THEN Candidates
                        ELSE {pair \in Candidates : Rank(pair) <= Rank(First)}
        IN /\ Range(r.tried) = Expected
           /\ \A i, j \in 1..Len(r.tried) : i < j => Rank(r.tried[i]) < Rank(r.tried[j])
           /\ r.ok <=> Winners # {}
           /\ r.ok => /\ r.tried[Len(r.tried)] = First
                       /\ r.libgui_path = First[1]
                       /\ r.err = "none"
           /\ ~r.ok <=> r.err = "AppNotFound"

\* both libraries exist and only the second symbol of the second path
\* attaches: the search made eight attach calls and succeeded
C15_Witness ==
    /\ probe.res.done /\ probe.res.ok
    /\ probe.exists = Range(libgui_paths)
    /\ probe.attaches = {<<libgui_paths[2], queue_buffer_symbols[2]>>}
    /\ Len(probe.res.tried) = 8

\* this step is a direct Engine call op
ECalled(op) == ecalls' = ecalls + 1 /\ last'.op = op

C17_RedundantMembershipNoOp ==
    [][((ECalled("attach") /\ last'.had) \/ (ECalled("detach") /\ ~last'.had)) =>
          /\ last'.ok
          /\ UNCHANGED <<poll, map, buffer, ring>>]_vars

\* an attached pid with a stored timestamp and a pending record has been
\* attached again
C17_Witness ==
    /\ last.op = "attach" /\ last.had /\ last.ok
    /\ last.pid \in DOMAIN map
    /\ map[last.pid].last # NoTs
    /\ ring[last.pid] # <<>>

\* C18: gateway attach and detach take the Analyzer lock with TryLockAttempts
\* non-blocking attempts. An attempt fails only when the lock is held, and
\* changes nothing of the Engine; the call returns -1 exactly at the failure
\* of the last attempt. A call that got the lock applies its Engine operation
\* in one step, once, and returns 0 iff the operation succeeded.
C18_BoundedLockRetry ==
    [][\A c \in Callers :
          /\ (pc[c] = "eng_try" /\ loc'[c].tries # loc[c].tries) =>
                /\ analyzerLock # NoOne
                /\ loc'[c].tries = loc[c].tries + 1
                /\ loc'[c].tries <= TryLockAttempts
                /\ UNCHANGED <<poll, map, buffer, ring>>
                /\ IF loc'[c].tries = TryLockAttempts
                   THEN pc'[c] = "idle" /\ ret'[c] = -1
                   ELSE pc'[c] = "eng_try"
          /\ (pc[c] = "eng_try" /\ pc'[c] = "eng_do") =>
                /\ analyzerLock = NoOne /\ analyzerLock' = c
                /\ UNCHANGED <<poll, map, buffer, ring>>
          /\ (pc[c] = "eng_try" /\ pc'[c] = "idle") =>
                loc'[c].tries = TryLockAttempts
          /\ (pc[c] = "eng_do" /\ pc'[c] = "idle") =>
                LET r == IF loc[c].op = "attach"
                         THEN AttachApp(Engine, loc[c].pid, loc[c].pid \in attachable)
                         ELSE DetachApp(Engine, loc[c].pid)
                IN /\ analyzerLock = c
                   /\ Engine' = [poll |-> r.poll, map |-> r.map,
                                  buffer |-> r.buffer, ring |-> r.ring]
                   /\ ret'[c] = (IF r.ok THEN 0 ELSE -1)]_vars

\* after an attach that got the lock, a detach of that pid gave up at its last
\* attempt and the pid is still attached
C18_Witness ==
    \E c \in Callers :
        /\ Idle(c) /\ loc[c].op = "detach"
        /\ loc[c].tries = TryLockAttempts /\ ret[c] = -1
        /\ loc[c].pid \in DOMAIN map

\* C19: pending events are FIFO by arrival. The thread numbers the events in
\* the order it obtains them from the Engine; the queue grows only by the
\* thread appending the event it holds at the back, so the queue is in arrival
\* order; and every successful get_frametime(pid) returns the duration of an
\* event of pid that arrived after the one returned before it for pid, leaving
\* no earlier event of pid behind.
C19_FifoByArrival ==
    [][/\ hist'.obtained # hist.obtained =>
             /\ bg.pc = "recv" /\ bg'.pc = "push_chk"
             /\ hist'.obtained = hist.obtained + 1
             /\ bg'.n = hist'.obtained
       /\ Len(fb_data') > Len(fb_data) =>
             /\ bg.pc = "push"
             /\ fb_data' = Append(fb_data, [pid |-> bg.pid, ft |-> bg.frametime,
                                            n |-> bg.n])
       /\ \A i, j \in 1..Len(fb_data') : i < j => fb_data'[i].n < fb_data'[j].n
       /\ \A c \in Callers :
             (pc[c] = "pop_take" /\ pc'[c] = "idle" /\ ret'[c] = 0) =>
                LET pid == loc[c].pid
                IN /\ hist'.returned[pid] > hist.returned[pid]
                   /\ \E i \in 1..Len(fb_data) :
                         /\ fb_data[i].pid = pid
                         /\ fb_data[i].n = hist'.returned[pid]
                         /\ loc'[c].out = FrameTimeOf(fb_data[i].ft)
                   /\ \A i \in 1..Len(fb_data') :
                         fb_data'[i].pid = pid => fb_data'[i].n > hist'.returned[pid]]_vars

\* two events of one pid were obtained and two calls returned them, the later
\* call the later event
C19_Witness ==
    \E c \in Callers : \E d \in Callers \ {c} :
        /\ Idle(c) /\ loc[c].op = "get_frametime" /\ ret[c] = 0
        /\ Idle(d) /\ loc[d].op = "get_frametime" /\ ret[d] = 0
        /\ loc[c].pid = loc[d].pid
        /\ hist.obtained = 2
        /\ hist.returned[loc[c].pid] = 2

\* C20: a receive of the Engine waits on the multiplexer at most once, and
\* exactly when its ready queue is empty (and a Poll is there); every pid the
\* wait reports is appended; then one pid is popped from the front and that
\* source's update() runs once. With nothing to pop, or update() absent, the
\* call returns absent: no other source is touched, the rest of the queue
\* stays, and the popped pid is not queued again.
C20_ReceiveIsOneShot ==
    [][ECalled("recv") =>
          LET q == IF last'.waited THEN last'.events ELSE buffer
          IN /\ last'.waited <=> (buffer = <<>> /\ poll.some)
             /\ IF q = <<>>
                THEN /\ last'.popped = 0 /\ ~last'.some
                     /\ buffer' = <<>>
                     /\ UNCHANGED <<map, ring>>
                ELSE LET p == Head(q)
                     IN /\ last'.popped = p
                        /\ buffer' = Tail(q)
                        /\ IF p \in DOMAIN map
                           THEN LET u == Update(Engine, p)
                                IN /\ map' = u.map /\ ring' = u.ring
                                   /\ last'.some = u.some
                                   /\ u.some => /\ last'.pid = p
                                                /\ last'.frametime = u.frametime
                                   /\ \A o \in Pids \ {p} : ring'[o] = ring[o]
                                   /\ \A o \in DOMAIN map \ {p} : map'[o] = map[o]
                           ELSE ~last'.some /\ UNCHANGED <<map, ring>>]_vars

\* a receive waited, two pids were reported, the first was popped and its
\* update() was absent: the call returned absent, the second pid stays queued
\* with its record unread
C20_Witness ==
    /\ last.op = "recv" /\ last.waited
    /\ Len(last.events) = 2
    /\ last.popped = last.events[1]
    /\ ~last.some
    /\ buffer = <<last.events[2]>>
    /\ ring[last.events[2]] # <<>>

C22_UnregisteredUntilAttach == ~last.inserted => ~poll.some

\* the threads that are inside an Engine operation
InEngine == {c \in Callers : pc[c] = "eng_do"} \cup (IF bg.pc = "recv" THEN {"bg"} ELSE {})

\* C23: the Engine is used under mutual exclusion and event reading is
\* independent of it. At most one thread is inside an Engine operation and it
\* is the holder of the Analyzer lock; the mapping, the registration and the
\* ready queue change only in a step of that holder, or in destroy's cleanup
\* with no thread inside; the thread has dropped the Analyzer lock when it goes
\* to the pending queue; a get_frametime call holds neither the Analyzer lock
\* nor GLOBAL_ANALYZER and its next statement can always run, whoever holds them.
C23_EngineExclusion ==
    /\ [](/\ Cardinality(InEngine) <= 1
          /\ InEngine = (IF analyzerLock = NoOne THEN {} ELSE {analyzerLock})
          /\ bg.pc \in {"push_chk", "push", "write"} => analyzerLock # "bg"
          /\ \A c \in Callers :
                (pc[c] # "idle" /\ loc[c].op = "get_frametime") =>
                   /\ analyzerLock # c /\ globalLock # c
                   /\ ENABLED GetStep(c))
    /\ [][<<poll, map, buffer>>' # <<poll, map, buffer>> =>
             \/ InEngine = {"bg"} /\ bg'.pc # "recv"
             \/ \E c \in Callers : InEngine = {c} /\ pc'[c] = "idle"
             \/ \E c \in Callers : /\ pc[c] = "des_clean" /\ pc'[c] = "des_close"
                                    /\ InEngine = {}]_vars

\* a gateway attach is inside the Engine while the thread, refused the lock,
\* is back at its loop and a reader has gone through to the scan of the queue
C23_Witness ==
    \E c \in Callers : \E d \in Callers \ {c} :
        /\ pc[c] = "eng_do" /\ loc[c].op = "attach" /\ analyzerLock = c
        /\ pc[d] = "pop_take" /\ loc[d].op = "get_frametime"
        /\ bg.pc = "loop"

\* C24: get_frametime honours its timeout_ms. A call during which no matching
\* event arrives returns no later than timeout_ms milliseconds after it was
\* made (at once for timeout_ms <= 0), and for timeout_ms = T > 0 it has waited
\* T milliseconds when it gives up, for every T.
C24_TimeoutHonoured ==
    [][\A c \in Callers :
          (pc[c] = "pop_take" /\ pc'[c] = "idle" /\ ret'[c] = -1) =>
             LET T == loc[c].timeout_ms
             IN /\ T <= 0 => clock' = 0
                /\ T > 0 => clock' <= T
                /\ T > 0 => clock' >= T]_vars

\* C25: Engine attach is all-or-nothing: an attach that returns an error leaves
\* the mapping without its pid (so contains(pid) is false and a later attach is
\* a real one) and leaves the Poll and its registered set as they were.
C25_AttachAllOrNothing ==
    [][(ECalled("attach") /\ ~last'.ok) =>
          /\ last'.pid \notin DOMAIN map'
          /\ UNCHANGED <<poll, map, buffer>>]_vars

\* C26: the eventfd made by an init() is closed exactly once: close is never
\* issued a second time on its descriptor number, whether by the thread's exit
\* path or by destroy().
C26_ClosedOnce == efd.closes <= 1

\* C27: the notification descriptor reflects data availability: whenever the
\* pending-event queue is not empty, no get_frametime call is in progress and
\* the thread is not between a push and its write, the eventfd counter is
\* nonzero.
C27_ReadableWhilePending ==
    (/\ fb_data # <<>>
     /\ \A c \in Callers : Idle(c)
     /\ bg.pc # "write") => efd.count > 0

\* C28: get_frametime does not wait when a matching event is already queued:
\* no call is parked on the condition variable with an entry of its pid in the
\* queue that was there when it took the queue lock (no entry of its pid was
\* pushed since it parked).
C28_NoWaitWhenQueued ==
    \A c \in Callers :
        (pc[c] = "pop_wait" /\ ~loc[c].hit) => Position(fb_data, loc[c].pid) = 0

\* C29: no stale data after detach: while the last successful attach/detach
\* of a pid is a detach that has returned, no get_frametime call for that pid
\* returns data.
C29_NoDataAfterDetach ==
    [][\A c \in Callers :
          (/\ pc[c] = "pop_take" /\ pc'[c] = "idle"
           /\ loc[c].pid \in hist.detached) => ret'[c] = -1]_vars

====
